---------------------------- MODULE Spec2Model ----------------------------
(***************************************************************************)
(* FeirasWallet: the browser-side credential wallet (static/js/wallet.js), *)
(* the verifier's result banner (static/js/verifier.js) and the service    *)
(* worker's caching (static/service-worker.js).                            *)
(*                                                                         *)
(* A credential is the JSON document the Claim Service returns.  The model *)
(* keeps the three fields the code reads when it stores, finds, deletes or *)
(* dates a credential: id, credentialSubject.id (sub) and expirationDate   *)
(* (exp).  A field that the document does not carry has the JavaScript     *)
(* value undefined.                                                        *)
(***************************************************************************)
EXTENDS Integers, Sequences, FiniteSets, TLC

\* ------------------------------------------------------------------ bounds

\* The most credentials the wallet holds in a run.
MaxStore == 3

\* The clock (Date.now(), new Date()) runs over 1..MaxNow milliseconds.
MaxNow == 3

\* ------------------------------------------------------- JavaScript values

\* The value of a field the object does not carry.
Undefined == "<undefined>"

\* What `v || ...` and `!v` test, for a string or undefined.
Truthy(v) == v # Undefined /\ v # ""

\* `${v}` in a template literal.
TemplateStr(v) == IF v = Undefined THEN "undefined" ELSE v

\* The time value of an Invalid Date.
NaN == -1

\* new Date(isoStr).getTime(): milliseconds since the epoch, NaN when the
\* string is no date.
ParseDate(s) ==
    CASE s = "1970-01-01T00:00:00.001Z" -> 1
      [] s = "1970-01-01T00:00:00.002Z" -> 2
      [] s = "1970-01-01T00:00:00.003Z" -> 3
      [] OTHER -> NaN

\* a > b on two Dates: false as soon as one of them is invalid.
DateGreater(a, b) == a # NaN /\ b # NaN /\ a > b

\* -------------------------------------------------------------- credentials

Cred(i, s, e) == [id |-> i, sub |-> s, exp |-> e]

ExpDate == "1970-01-01T00:00:00.002Z"

\* The credentials the Claim Service hands out in a run: with and without
\* an id, with and without a subject id, and two pairs that differ only in
\* their expirationDate.
Credential ==
    { Cred(i, s, Undefined) : i \in {Undefined, "1", "a"}, s \in {Undefined, "a"} }
      \cup { Cred("a", Undefined, ExpDate), Cred(Undefined, "a", ExpDate) }

\* Credentials whose expirationDate is no date at all: isExpired sees them on
\* the claim page, the wallet of a run does not hold them.
Undated == { Cred("a", Undefined, "garbage"), Cred("a", Undefined, "") }

\* The ids remove and get are called with: every id a credential carries, the
\* subject ids, the clock's strings, and "undefined", which is what the card
\* of a credential without id passes to confirmDelete.
IdArg == {"1", "2", "a", "undefined"}

\* ------------------------------------------------------------- localStorage

\* The item under WALLET_KEY.  kind "missing": the key was never written
\* (getItem returns null); "array": the text is the serialisation of elems;
\* "garbage": text JSON.parse rejects; "null", "object": the texts 'null'
\* and '{}', which parse, but not to an array.
Item(k, es) == [kind |-> k, elems |-> es]

NoItem == Item("missing", <<>>)

\* A JavaScript value JSON.parse returns.
Value(t, es) == [type |-> t, elems |-> es]

\* JSON.stringify(creds).
JSONstringify(creds) == Item("array", creds)

\* JSON.parse(text): the value, or threw.
JSONparse(text) ==
    CASE text.kind = "array"  -> [threw |-> FALSE, value |-> Value("array", text.elems)]
      [] text.kind = "null"   -> [threw |-> FALSE, value |-> Value("null", <<>>)]
      [] text.kind = "object" -> [threw |-> FALSE, value |-> Value("object", <<>>)]
      [] OTHER                -> [threw |-> TRUE,  value |-> Value("null", <<>>)]

\* loadCredentials(): wallet.js 8-14.
loadCredentials(item) ==
    LET text == IF item.kind = "missing" THEN JSONstringify(<<>>) ELSE item
        p    == JSONparse(text)
    IN  IF p.threw THEN Value("array", <<>>) ELSE p.value

\* saveCredentials(creds): wallet.js 16-18.  setItem throws when the quota is
\* exceeded and then leaves the item as it was.
saveCredentials(item, full, creds) ==
    IF full THEN [threw |-> TRUE, item |-> item]
            ELSE [threw |-> FALSE, item |-> JSONstringify(creds)]

\* creds.find(c => c.id === id) finds something.
Found(creds, id) == \E i \in 1..Len(creds) : creds[i].id = id

\* creds.find(c => c.id === id): the first match, in a sequence of 0 or 1.
Find(creds, id) ==
    IF Found(creds, id)
    THEN <<creds[CHOOSE i \in 1..Len(creds) :
                  /\ creds[i].id = id
                  /\ \A j \in 1..(i - 1) : creds[j].id # id]>>
    ELSE <<>>

\* The id addCredential looks for: wallet.js 22.
ResolveId(c, t) ==
    IF Truthy(c.id) THEN c.id
    ELSE IF Truthy(c.sub) THEN c.sub
    ELSE ToString(t)

\* addCredential that overwrites: a credential whose id is already stored
\* replaces the stored one.
addCredentialUpsert(item, full, t, c) ==
    LET creds == loadCredentials(item)
        id    == ResolveId(c, t)
    IN  IF creds.type # "array" THEN [ret |-> "TypeError", item |-> item]
        ELSE LET w == saveCredentials(item, full,
                          <<c>> \o SelectSeq(creds.elems, LAMBDA e : e.id # id))
             IN  IF w.threw THEN [ret |-> "QuotaExceededError", item |-> item]
                            ELSE [ret |-> "true", item |-> w.item]

\* addCredential(credJson) at time t: wallet.js 20-27.  ret is what the call
\* returns ("true", "false") or the error it throws.
addCredential(item, full, t, c) ==
    LET creds == loadCredentials(item)
        id    == ResolveId(c, t)
    IN  IF creds.type # "array" THEN [ret |-> "TypeError", item |-> item]
        ELSE IF Found(creds.elems, id) THEN [ret |-> "false", item |-> item]
        ELSE LET w == saveCredentials(item, full, <<c>> \o creds.elems)
             IN  IF w.threw THEN [ret |-> "QuotaExceededError", item |-> item]
                            ELSE [ret |-> "true", item |-> w.item]

\* deleteCredential with the filter's test turned round (=== for !==).
deleteCredentialKeepsMatch(item, full, id) ==
    LET creds == loadCredentials(item)
    IN  IF creds.type # "array" THEN [ret |-> "TypeError", item |-> item]
        ELSE LET w == saveCredentials(item, full,
                          SelectSeq(creds.elems, LAMBDA c : c.id = id))
             IN  IF w.threw THEN [ret |-> "QuotaExceededError", item |-> item]
                            ELSE [ret |-> "undefined", item |-> w.item]

\* deleteCredential by creds.splice(creds.findIndex(c => c.id === id), 1):
\* findIndex is -1 for an id that is not stored, and splice(-1, 1) takes out
\* the last credential.
deleteCredentialSplice(item, full, id) ==
    LET creds == loadCredentials(item)
        es    == creds.elems
        at    == IF Found(es, id)
                 THEN CHOOSE i \in 1..Len(es) :
                          es[i].id = id /\ \A j \in 1..(i - 1) : es[j].id # id
                 ELSE Len(es)
        kept  == [i \in 1..(IF Len(es) = 0 THEN 0 ELSE Len(es) - 1) |->
                      IF i < at THEN es[i] ELSE es[i + 1]]
    IN  IF creds.type # "array" THEN [ret |-> "TypeError", item |-> item]
        ELSE LET w == saveCredentials(item, full, kept)
             IN  IF w.threw THEN [ret |-> "QuotaExceededError", item |-> item]
                            ELSE [ret |-> "undefined", item |-> w.item]

\* deleteCredential(id): wallet.js 29-32.
deleteCredential(item, full, id) ==
    LET creds == loadCredentials(item)
    IN  IF creds.type # "array" THEN [ret |-> "TypeError", item |-> item]
        ELSE LET w == saveCredentials(item, full,
                          SelectSeq(creds.elems, LAMBDA c : c.id # id))
             IN  IF w.threw THEN [ret |-> "QuotaExceededError", item |-> item]
                            ELSE [ret |-> "undefined", item |-> w.item]

\* isExpired with >= for >: expired at the very instant of the date.
isExpiredInclusive(c, t) ==
    IF ~Truthy(c.exp) THEN FALSE
    ELSE DateGreater(t + 1, ParseDate(c.exp))

\* isExpired(credential) at time t: wallet.js 36-40.
isExpired(c, t) ==
    IF ~Truthy(c.exp) THEN FALSE
    ELSE DateGreater(t, ParseDate(c.exp))


\* -------------------------------------------------------------------- state

VARIABLES
    storage,   \* localStorage's item under WALLET_KEY
    full,      \* the origin's storage quota is used up: setItem throws
    now,       \* the clock, in milliseconds
    last,      \* the call or handler that ran last: what it was given, what
               \* it returned or threw, what it rendered
    prev,      \* storage as that call found it
    pair,      \* when that call followed an add of a credential carrying the
               \* id it names: that add, and storage as that add found it
    pc,        \* the page of the tab: "home", or where loadClaimPage is
    page,      \* the claim page: the fetched credential, its save button,
               \* the acknowledgement POST
    hasResultsEl,  \* the verifier page holds the element 'results'
    vpc,       \* the verifier: "idle", or "waiting" for /verify/check
    verdict,   \* the Verification Service's last response
    results,   \* what the element 'results' shows
    swPhase,   \* the service worker: "parsed", "installed" or "active"
    swCache,   \* the cache CACHE_NAME: the response stored for each path
    swEvent,   \* the fetch event being handled, or the last one answered
    swPuts,    \* the cache.put calls that have not completed yet
    tab,       \* two tabs on the same origin: what each one is doing to
               \* the wallet and what it read from localStorage
    kept,      \* the credentials whose add returned true, no remove of
               \* their id having completed since
    gone       \* the ids whose remove completed, no add of them having
               \* returned true since

storeVars == <<storage, full, now, last, prev, pair>>
pageVars  == <<pc, page>>
verVars   == <<hasResultsEl, vpc, verdict, results>>
swVars    == <<swPhase, swCache, swEvent, swPuts>>
tabVars   == <<tab, kept, gone>>
vars      == <<storage, full, now, last, prev, pair, pc, page,
               hasResultsEl, vpc, verdict, results,
               swPhase, swCache, swEvent, swPuts, tab, kept, gone>>

NoCred == Cred(Undefined, Undefined, Undefined)

\* The record of a call: op, the handler it ran in ("" for a plain call), its
\* credential or id argument, ret (the value returned, or the error thrown),
\* out (the credentials list and get return) and shown (what the handler
\* rendered, "" when it rendered nothing).
Call(op, handler, c, id, ret, out, shown) ==
    [op |-> op, handler |-> handler, cred |-> c, id |-> id, ret |-> ret,
     out |-> out, shown |-> shown]

NoOut == Value("undefined", <<>>)

NoCall == Call("none", "", NoCred, Undefined, "undefined", NoOut, "")

NoPair == [on |-> FALSE, first |-> NoCred, firstRet |-> "undefined", origin |-> NoItem]

\* The add before a call that names id, when the credential of that add
\* carries id.
PairWith(id) ==
    IF last.op = "add" /\ Truthy(last.cred.id) /\ last.cred.id = id
    THEN [on |-> TRUE, first |-> last.cred, firstRet |-> last.ret, origin |-> prev]
    ELSE NoPair

\* The stored credentials as list() returns them.
Stored == loadCredentials(storage).elems

NoPage ==
    [cred |-> NoCred, hasBtn |-> FALSE, text |-> "", disabled |-> FALSE,
     onclick |-> FALSE, status |-> "", ack |-> "none"]

NoVerdict ==
    [signatureValid |-> Undefined, expired |-> Undefined, valid |-> Undefined,
     error |-> Undefined]

Hidden == [kind |-> "hidden", class |-> "", title |-> "", msg |-> ""]

\* ------------------------------------------------- service worker values

\* A path is its segments: "/wallet/" is <<"wallet", "">>.
ApiPath      == <<"api", "credentials", "abc">>
VerifyPath   == <<"verify", "check">>
WalletPath   == <<"wallet", "">>
WalletJsPath == <<"static", "js", "wallet.js">>
ManifestPath == <<"static", "manifest.json">>
CssPath      == <<"static", "css", "app.css">>

Path == {ApiPath, VerifyPath, WalletPath, WalletJsPath, ManifestPath, CssPath}

\* PRECACHE_URLS: service-worker.js 7-11.
PRECACHE_URLS == {WalletPath, WalletJsPath, ManifestPath}

\* A request: its method, whether its URL is on the worker's origin, its path.
Request == [method : {"GET", "POST"}, sameOrigin : BOOLEAN, path : Path]

Response(status, type, body) == [status |-> status, type |-> type, body |-> body]

\* No response: what caches.match resolves to when nothing matches.
NoResponse == Response(0, "none", "")

\* What the network answers: the current or the next release of a file, a
\* 404, or the opaque redirect a navigation gets.
NetResponse ==
    { Response(200, "basic", b) : b \in {"v1", "v2"} }
      \cup { Response(404, "basic", "not found"), Response(0, "opaqueredirect", "") }

NoRequest == [method |-> "GET", sameOrigin |-> TRUE, path |-> WalletPath]

\* A fetch event: the request, the route the handler took ("none": it
\* returned without respondWith), what caches.match found when the handler
\* asked first, what the network did, where the answer came from and what it
\* is, and whether the handler called cache.put on it.
Event(req, route, stage, matched, net, source, resp, put) ==
    [req |-> req, route |-> route, stage |-> stage, matched |-> matched,
     net |-> net, source |-> source, resp |-> resp, put |-> put]

NoEvent == Event(NoRequest, "none", "idle", NoResponse, "none", "none", NoResponse, FALSE)

\* ------------------------------------------------------------ the two tabs

Tab == {"tab1", "tab2"}

\* The credentials the two tabs add and remove.
TabCred == { Cred("a", Undefined, Undefined), Cred("1", Undefined, Undefined) }

IdleTab ==
    [pc |-> "idle", op |-> "none", cred |-> NoCred, id |-> Undefined,
     read |-> NoItem, ret |-> "undefined"]

\* What the worker and the tabs start as.
InitRest ==
    /\ swPhase = "parsed"
    /\ swCache = [p \in Path |-> NoResponse]
    /\ swEvent = NoEvent
    /\ swPuts = {}
    /\ tab = [t \in Tab |-> IdleTab]
    /\ kept = {}
    /\ gone = {}

Init ==
    /\ InitRest
    /\ storage = NoItem
    /\ full = FALSE
    /\ now = 1
    /\ last = NoCall
    /\ prev = NoItem
    /\ pair = NoPair
    /\ pc = "home"
    /\ page = NoPage
    /\ hasResultsEl = TRUE
    /\ vpc = "idle"
    /\ verdict = NoVerdict
    /\ results = Hidden

\* The wallet never holds more than MaxStore credentials in a run.
Fits(item) == Len(item.elems) <= MaxStore

\* ------------------------------------------------------ the store's calls

\* loadCredentials() called for the list.
List ==
    /\ last' = Call("list", "", NoCred, Undefined, "undefined",
                    loadCredentials(storage), "")
    /\ prev' = storage
    /\ pair' = NoPair
    /\ UNCHANGED <<storage, full, now, pageVars, verVars, swVars, tabVars>>

\* addCredential(c).
AddCredential(c) ==
    LET r == addCredential(storage, full, now, c)
    IN  /\ Fits(r.item)
        /\ storage' = r.item
        /\ last' = Call("add", "", c, ResolveId(c, now), r.ret, NoOut, "")
        /\ prev' = storage
        /\ pair' = PairWith(c.id)
        /\ UNCHANGED <<full, now, pageVars, verVars, swVars, tabVars>>

\* deleteCredential(id).
DeleteCredential(id) ==
    LET r == deleteCredential(storage, full, id)
    IN  /\ storage' = r.item
        /\ last' = Call("remove", "", NoCred, id, r.ret, NoOut, "")
        /\ prev' = storage
        /\ pair' = PairWith(id)
        /\ UNCHANGED <<full, now, pageVars, verVars, swVars, tabVars>>

\* loadCredentials().find(c => c.id === id): wallet.js 231.
GetCredential(id) ==
    /\ loadCredentials(storage).type = "array"
    /\ last' = Call("get", "", NoCred, id, "undefined",
                    Value("array", Find(Stored, id)), "")
    /\ prev' = storage
    /\ pair' = NoPair
    /\ UNCHANGED <<storage, full, now, pageVars, verVars, swVars, tabVars>>

\* isExpired(c).
IsExpired(c) ==
    /\ last' = Call("isExpired", "", c, Undefined,
                    IF isExpired(c, now) THEN "true" ELSE "false", NoOut, "")
    /\ prev' = storage
    /\ pair' = NoPair
    /\ UNCHANGED <<storage, full, now, pageVars, verVars, swVars, tabVars>>

\* Time passes.
Tick ==
    /\ now < MaxNow
    /\ now' = now + 1
    /\ last' = NoCall
    /\ prev' = storage
    /\ pair' = NoPair
    /\ UNCHANGED <<storage, full, pageVars, verVars, swVars, tabVars>>

\* ------------------------------------------------------ the wallet's home

\* renderWalletHome(): wallet.js 67-83.  What it shows, or the error it
\* throws reading creds.length of null.
renderWalletHome(item) ==
    LET creds == loadCredentials(item)
    IN  IF creds.type = "null" THEN "TypeError"
        ELSE IF creds.type # "array" \/ Len(creds.elems) = 0 THEN "empty-state"
        ELSE "credential-list"

\* confirmDelete(id), wallet.js 124-129, from the card of the i-th credential
\* (wallet.js 114); ok is the user's answer to confirm().
ConfirmDelete(i, ok) ==
    LET id == TemplateStr(Stored[i].id)
        r  == deleteCredential(storage, full, id)
        h  == renderWalletHome(r.item)
    IN  /\ pc = "home"
        /\ i \in 1..Len(Stored)
        /\ IF ok
           THEN /\ storage' = r.item
                /\ last' = IF r.ret # "undefined"
                           THEN Call("remove", "confirmDelete", NoCred, id, r.ret, NoOut, "")
                           ELSE IF h = "TypeError"
                           THEN Call("remove", "confirmDelete", NoCred, id, h, NoOut, "")
                           ELSE Call("remove", "confirmDelete", NoCred, id, r.ret, NoOut, h)
                /\ prev' = storage
                /\ pair' = PairWith(id)
           ELSE UNCHANGED <<storage, last, prev, pair>>
        /\ UNCHANGED <<full, now, pageVars, verVars, swVars, tabVars>>

\* saveToWallet(cred, btn): wallet.js 216-223.  What the button shows after
\* it, or nothing when addCredential threw.
saveToWallet(ret, hasBtn) ==
    IF ret \notin {"true", "false"} \/ ~hasBtn THEN ""
    ELSE IF ret = "true" THEN "Salvo na wallet!" ELSE "Ja estava na wallet"

\* The save button's handler, set by a claim page that fetched c, runs.
SaveStep(c) ==
    LET r == addCredential(storage, full, now, c)
    IN  /\ Fits(r.item)
        /\ storage' = r.item
        /\ last' = Call("add", "saveToWallet", c, ResolveId(c, now), r.ret,
                        NoOut, saveToWallet(r.ret, TRUE))
        /\ prev' = storage
        /\ pair' = PairWith(c.id)

SaveToWallet(c) ==
    /\ SaveStep(c)
    /\ UNCHANGED <<full, now, pageVars, verVars, swVars, tabVars>>

\* ---------------------------------------------------------- the claim page

\* A handler that calls nothing of the store ran.
NoStoreCall ==
    /\ last' = NoCall
    /\ prev' = storage
    /\ pair' = NoPair
    /\ UNCHANGED <<storage, full, now>>

\* The credentials the Claim Service serves in the runs of the claim page.
ClaimCred ==
    { Cred("a", Undefined, Undefined), Cred("a", Undefined, ExpDate),
      Cred(Undefined, "a", Undefined) }

\* /wallet/claim/<claimId> opens and loadClaimPage(claimId) runs up to its
\* fetch: wallet.js 133-139.  The page's template decides whether there is a
\* save button and how it starts.
OpenClaim(hasBtn, disabled) ==
    /\ pc' = "fetching"
    /\ page' = [NoPage EXCEPT !.hasBtn = hasBtn, !.disabled = hasBtn /\ disabled]
    /\ NoStoreCall
    /\ UNCHANGED <<verVars, swVars, tabVars>>

\* The catch of loadClaimPage: wallet.js 210-213.
claimError(pg, msg) ==
    [pg EXCEPT !.status = msg, !.disabled = pg.hasBtn]

\* The fetch rejects, answers not ok, or answers without a credential:
\* wallet.js 139-143.
FetchFails(msg) ==
    /\ pc = "fetching"
    /\ pc' = "error"
    /\ page' = claimError(page, msg)
    /\ NoStoreCall
    /\ UNCHANGED <<verVars, swVars, tabVars>>

\* loadClaimPage without its POST.
claimPostSkipped(pg) == pg

\* The acknowledgement loadClaimPage sends: wallet.js 207-208.
claimPost(pg) == [pg EXCEPT !.ack = "pending"]

\* loadClaimPage once the credential c is there: wallet.js 144-208.
claimLoaded(pg, item, c) ==
    LET creds == loadCredentials(item)
        shown == [pg EXCEPT !.cred = c]
    IN  IF ~pg.hasBtn THEN [pc |-> "loaded", page |-> claimPost(shown)]
        ELSE IF creds.type # "array"
        THEN [pc |-> "error", page |-> claimError(shown, "Erro: TypeError")]
        ELSE IF Found(creds.elems, c.id)
        THEN [pc |-> "loaded",
              page |-> claimPost([shown EXCEPT !.text = "Ja esta na sua wallet",
                                               !.disabled = TRUE])]
        ELSE [pc |-> "loaded",
              page |-> claimPost([shown EXCEPT !.disabled = FALSE,
                                               !.onclick = TRUE])]

\* The fetch answers with the credential c.
FetchOk(c) ==
    LET r == claimLoaded(page, storage, c)
    IN  /\ pc = "fetching"
        /\ pc' = r.pc
        /\ page' = r.page
        /\ NoStoreCall
        /\ UNCHANGED <<verVars, swVars, tabVars>>

\* The user presses the save button: wallet.js 203, 216-223.
SaveClick ==
    /\ pc = "loaded"
    /\ page.onclick /\ ~page.disabled
    /\ SaveStep(page.cred)
    /\ page' = IF last'.shown = "" THEN page
               ELSE [page EXCEPT !.text = last'.shown, !.disabled = TRUE]
    /\ UNCHANGED <<full, now, pc, verVars, swVars, tabVars>>

\* The acknowledgement POST settles; .catch(() => {}) drops a failure.
AckSettles(ok) ==
    /\ page.ack = "pending"
    /\ page' = [page EXCEPT !.ack = IF ok THEN "acknowledged" ELSE "failed"]
    /\ NoStoreCall
    /\ UNCHANGED <<pc, verVars, swVars, tabVars>>

\* The user goes (back) to the wallet's home.
GoHome ==
    /\ pc # "home"
    /\ pc' = "home"
    /\ page' = NoPage
    /\ NoStoreCall
    /\ UNCHANGED <<verVars, swVars, tabVars>>

\* ------------------------------------------------------------ the verifier

SignatureMsg == "Assinatura invalida. Credencial adulterada ou nao reconhecida."

\* What a field of the response is tested for: true, false or missing.
IsTrue(v) == v = "true"

Banner(class, title, msg) ==
    [kind |-> "banner", class |-> class, title |-> title, msg |-> msg]

\* renderResult with the expiry branch before the signature branch.
renderResultExpiryFirst(result) ==
    IF IsTrue(result.expired)
    THEN Banner("expired", "AUTORIZACAO EXPIRADA",
                "Credencial expirada. Solicite nova autorizacao.")
    ELSE IF ~IsTrue(result.signatureValid)
    THEN Banner("invalid", "ACESSO NEGADO", SignatureMsg)
    ELSE IF IsTrue(result.valid)
    THEN Banner("valid", "ACESSO AUTORIZADO",
                "Assinatura Ed25519 valida - Credencial vigente")
    ELSE Banner("invalid", "ACESSO NEGADO",
                IF Truthy(result.error) THEN result.error ELSE "Verificacao falhou.")

\* The status banner of renderResult(result, credential): verifier.js 92-112.
renderResult(result) ==
    IF ~IsTrue(result.signatureValid)
    THEN Banner("invalid", "ACESSO NEGADO", SignatureMsg)
    ELSE IF IsTrue(result.expired)
    THEN Banner("expired", "AUTORIZACAO EXPIRADA",
                "Credencial expirada. Solicite nova autorizacao.")
    ELSE IF IsTrue(result.valid)
    THEN Banner("valid", "ACESSO AUTORIZADO",
                "Assinatura Ed25519 valida - Credencial vigente")
    ELSE Banner("invalid", "ACESSO NEGADO",
                IF Truthy(result.error) THEN result.error ELSE "Verificacao falhou.")

\* The responses of POST /verify/check.
Flag == {"true", "false", Undefined}

Verdict ==
    [signatureValid : Flag, expired : Flag, valid : Flag,
     error : {Undefined, "Credencial revogada"}]

\* runVerification() up to its fetch: verifier.js 6-25, 58-64.
StartVerification ==
    /\ vpc = "idle"
    /\ vpc' = "waiting"
    /\ results' = IF hasResultsEl
                  THEN [kind |-> "loading", class |-> "", title |-> "", msg |-> "Verificando..."]
                  ELSE results
    /\ UNCHANGED <<hasResultsEl, verdict, storeVars, pageVars, swVars, tabVars>>

\* The response arrives and renderResult shows it: verifier.js 26-27, 79-83.
VerificationAnswers(v) ==
    /\ vpc = "waiting"
    /\ vpc' = "idle"
    /\ verdict' = v
    /\ results' = IF hasResultsEl THEN renderResult(v) ELSE results
    /\ UNCHANGED <<hasResultsEl, storeVars, pageVars, swVars, tabVars>>

\* The fetch rejects and showError shows it: verifier.js 28-30, 66-77.
VerificationFails ==
    /\ vpc = "waiting"
    /\ vpc' = "idle"
    /\ results' = IF hasResultsEl
                  THEN [kind |-> "error", class |-> "error", title |-> "Erro",
                        msg |-> "Erro de rede"]
                  ELSE results
    /\ UNCHANGED <<hasResultsEl, verdict, storeVars, pageVars, swVars, tabVars>>

\* ------------------------------------------------------------------ faults

\* The origin's quota fills up, or is freed again.
QuotaChanges ==
    /\ full' = ~full
    /\ last' = NoCall
    /\ prev' = storage
    /\ pair' = NoPair
    /\ UNCHANGED <<storage, now, pageVars, verVars, swVars, tabVars>>

\* Something else of the origin (another script, an older release, the
\* user's developer tools) leaves a text under WALLET_KEY that is no
\* serialised list, or removes the item.
ForeignWrite(kind) ==
    /\ storage' = Item(kind, <<>>)
    /\ last' = NoCall
    /\ prev' = storage'
    /\ pair' = NoPair
    /\ UNCHANGED <<full, now, pageVars, verVars, swVars, tabVars>>

\* ---------------------------------------------------------- specifications

\* One tab using the wallet's store: its calls, and the two handlers that
\* write to it.
Next ==
    \/ List
    \/ \E c \in Credential : AddCredential(c)
    \/ \E c \in Credential : SaveToWallet(c)
    \/ \E id \in IdArg : DeleteCredential(id)
    \/ \E i \in 1..Len(Stored), ok \in BOOLEAN : ConfirmDelete(i, ok)
    \/ \E id \in IdArg : GetCredential(id)
    \/ \E c \in Credential \cup Undated : IsExpired(c)
    \/ Tick

Spec == Init /\ [][Next]_vars

\* One tab going through claim pages and the wallet's home.
NextClaim ==
    \/ \E hasBtn \in BOOLEAN, disabled \in BOOLEAN : OpenClaim(hasBtn, disabled)
    \/ \E msg \in {"Erro: Failed to fetch", "Erro: HTTP 404",
                   "Erro: Credencial nao encontrada"} : FetchFails(msg)
    \/ \E c \in ClaimCred : FetchOk(c)
    \/ SaveClick
    \/ \E ok \in BOOLEAN : AckSettles(ok)
    \/ GoHome
    \/ \E i \in 1..Len(Stored), ok \in BOOLEAN : ConfirmDelete(i, ok)

SpecClaim == Init /\ [][NextClaim]_vars

\* The store and its handlers when the quota can run out and the item can be
\* overwritten from outside.
NextFaults ==
    \/ List
    \/ \E c \in ClaimCred : AddCredential(c)
    \/ \E c \in ClaimCred : SaveToWallet(c)
    \/ \E id \in IdArg : DeleteCredential(id)
    \/ \E i \in 1..Len(Stored), ok \in BOOLEAN : ConfirmDelete(i, ok)
    \/ QuotaChanges
    \/ \E kind \in {"missing", "garbage", "null", "object"} : ForeignWrite(kind)

SpecFaults == Init /\ [][NextFaults]_vars

\* The verifier page, with and without its element 'results'.
InitVerifier ==
    /\ InitRest
    /\ storage = NoItem
    /\ full = FALSE
    /\ now = 1
    /\ last = NoCall
    /\ prev = NoItem
    /\ pair = NoPair
    /\ pc = "home"
    /\ page = NoPage
    /\ hasResultsEl \in BOOLEAN
    /\ vpc = "idle"
    /\ verdict = NoVerdict
    /\ results = Hidden

NextVerifier ==
    \/ StartVerification
    \/ \E v \in Verdict : VerificationAnswers(v)
    \/ VerificationFails

SpecVerifier == InitVerifier /\ [][NextVerifier]_vars

\* ------------------------------------------------------ the service worker

\* url.pathname.startsWith('/' + dir + '/').
StartsWithDir(path, dir) == Len(path) >= 2 /\ path[1] = dir

\* The fetch listener's choice: service-worker.js 38-51.  "none": it returns
\* without calling respondWith and the browser handles the request.
route(req) ==
    IF req.method # "GET" THEN "none"
    ELSE IF ~req.sameOrigin THEN "none"
    ELSE IF StartsWithDir(req.path, "api") \/ StartsWithDir(req.path, "verify")
    THEN "network-first"
    ELSE "cache-first"

\* caches.match(event.request): the response stored for the request's URL.
match(cache, req) ==
    IF req.method = "GET" /\ req.sameOrigin THEN cache[req.path] ELSE NoResponse

\* The responses the cache-first branch stores, with every response stored.
cacheableAlways(response) == TRUE

\* The responses the cache-first branch stores: service-worker.js 55-57.
cacheable(response) ==
    ~(response = NoResponse \/ response.status # 200 \/ response.type # "basic")

\* install: service-worker.js 15-20.  cache.addAll stores all of
\* PRECACHE_URLS or, when one of them cannot be fetched, nothing, and the
\* worker is then not installed.
Install(ok, body) ==
    /\ swPhase = "parsed"
    /\ swPhase' = IF ok THEN "installed" ELSE "parsed"
    /\ swCache' = IF ok
                  THEN [p \in Path |-> IF p \in PRECACHE_URLS
                                       THEN Response(200, "basic", body)
                                       ELSE swCache[p]]
                  ELSE swCache
    /\ UNCHANGED <<swEvent, swPuts, storeVars, pageVars, verVars, tabVars>>

\* activate: service-worker.js 24-31.  The caches of other names are
\* deleted, the one named CACHE_NAME stays, and the worker starts to get the
\* fetch events of its pages.
Activate ==
    /\ swPhase = "installed"
    /\ swPhase' = "active"
    /\ UNCHANGED <<swCache, swEvent, swPuts, storeVars, pageVars, verVars, tabVars>>

\* fetch, up to the first thing the handler waits for: service-worker.js
\* 35-53.
FetchEvent(req) ==
    LET r == route(req)
        m == match(swCache, req)
    IN  /\ swPhase = "active"
        /\ swEvent.stage # "network"
        /\ swEvent' =
             IF r = "none"
             THEN Event(req, r, "done", NoResponse, "none", "not intercepted",
                        NoResponse, FALSE)
             ELSE IF r = "network-first"
             THEN Event(req, r, "network", NoResponse, "none", "none",
                        NoResponse, FALSE)
             ELSE IF m # NoResponse
             THEN Event(req, r, "done", m, "none", "cache", m, FALSE)
             ELSE Event(req, r, "network", m, "none", "none", NoResponse, FALSE)
        /\ UNCHANGED <<swPhase, swCache, swPuts, storeVars, pageVars, verVars, tabVars>>

\* fetch(event.request) resolves: service-worker.js 45, 54-60.
NetworkAnswers(response) ==
    LET put == swEvent.route = "cache-first" /\ cacheable(response)
    IN  /\ swEvent.stage = "network"
        /\ swEvent' = [swEvent EXCEPT !.stage = "done", !.net = "answered",
                                      !.source = "network", !.resp = response,
                                      !.put = put]
        /\ swPuts' = IF put
                     THEN swPuts \cup {[path |-> swEvent.req.path, resp |-> response]}
                     ELSE swPuts
        /\ UNCHANGED <<swPhase, swCache, storeVars, pageVars, verVars, tabVars>>

\* fetch(event.request) rejects: service-worker.js 45; in the cache-first
\* branch nothing catches it.
NetworkFails ==
    LET m == match(swCache, swEvent.req)
    IN  /\ swEvent.stage = "network"
        /\ swEvent' =
             IF swEvent.route = "network-first"
             THEN [swEvent EXCEPT !.stage = "done", !.net = "failed",
                                  !.matched = m,
                                  !.source = IF m # NoResponse THEN "cache" ELSE "error",
                                  !.resp = m]
             ELSE [swEvent EXCEPT !.stage = "done", !.net = "failed",
                                  !.source = "error"]
        /\ UNCHANGED <<swPhase, swCache, swPuts, storeVars, pageVars, verVars, tabVars>>

\* caches.open(CACHE_NAME).then(cache => cache.put(...)) completes:
\* service-worker.js 59.
PutCompletes(p) ==
    /\ p \in swPuts
    /\ swCache' = [swCache EXCEPT ![p.path] = p.resp]
    /\ swPuts' = swPuts \ {p}
    /\ UNCHANGED <<swPhase, swEvent, storeVars, pageVars, verVars, tabVars>>

NextWorker ==
    \/ \E ok \in BOOLEAN, body \in {"v1", "v2"} : Install(ok, body)
    \/ Activate
    \/ \E req \in Request : FetchEvent(req)
    \/ \E response \in NetResponse : NetworkAnswers(response)
    \/ NetworkFails
    \/ \E p \in swPuts : PutCompletes(p)

SpecWorker == Init /\ [][NextWorker]_vars

\* ------------------------------------------- two tabs on one localStorage

\* The collection a tab's write is computed from, if the read and the write
\* were one step: what is stored when it writes.
writeBaseCurrent(read, current) == current

\* The collection a tab's write is computed from: creds, what loadCredentials
\* returned to it (wallet.js 21 and 30), whatever is stored by the time
\* saveCredentials runs (wallet.js 25 and 31).
writeBase(read, current) == read

\* A tab calls addCredential(c) and gets as far as loadCredentials():
\* wallet.js 21.
TabStartsAdd(t, c) ==
    /\ tab[t].pc = "idle"
    /\ tab' = [tab EXCEPT ![t] = [IdleTab EXCEPT !.pc = "read", !.op = "add",
                                                 !.cred = c, !.id = c.id,
                                                 !.read = storage]]
    /\ UNCHANGED <<kept, gone, storeVars, pageVars, verVars, swVars>>

\* A tab calls deleteCredential(id) and gets as far as loadCredentials():
\* wallet.js 30.
TabStartsRemove(t, id) ==
    /\ tab[t].pc = "idle"
    /\ tab' = [tab EXCEPT ![t] = [IdleTab EXCEPT !.pc = "read", !.op = "remove",
                                                 !.id = id, !.read = storage]]
    /\ UNCHANGED <<kept, gone, storeVars, pageVars, verVars, swVars>>

\* What the tab's call makes of the collection it is computed from.
tabCall(tb, base, isFull, t) ==
    IF tb.op = "add" THEN addCredential(base, isFull, t, tb.cred)
                     ELSE deleteCredential(base, isFull, tb.id)

\* The tab's call runs to its end: wallet.js 22-26 and 30-31.  It writes
\* unless addCredential found the id.
TabFinishes(t) ==
    LET r == tabCall(tab[t], writeBase(tab[t].read, storage), full, now)
        wrote == r.ret \in {"true", "undefined"}
    IN  /\ tab[t].pc = "read"
        /\ storage' = IF wrote THEN r.item ELSE storage
        /\ tab' = [tab EXCEPT ![t] = IdleTab]
        /\ kept' = IF tab[t].op = "add" /\ r.ret = "true"
                   THEN kept \cup {tab[t].cred}
                   ELSE IF tab[t].op = "remove" /\ r.ret = "undefined"
                   THEN {x \in kept : x.id # tab[t].id}
                   ELSE kept
        /\ gone' = IF tab[t].op = "remove" /\ r.ret = "undefined"
                   THEN gone \cup {tab[t].id}
                   ELSE IF tab[t].op = "add" /\ r.ret = "true"
                   THEN gone \ {tab[t].id}
                   ELSE gone
        /\ UNCHANGED <<full, now, last, prev, pair, pageVars, verVars, swVars>>

NextTabs ==
    \/ \E t \in Tab, c \in TabCred : TabStartsAdd(t, c)
    \/ \E t \in Tab, c \in TabCred : TabStartsRemove(t, c.id)
    \/ \E t \in Tab : TabFinishes(t)

SpecTabs == Init /\ [][NextTabs]_vars

\* ------------------------------------------------------------------ claims

\* The stored credentials as the call that ran last found them.
Before == loadCredentials(prev).elems

\* The stored credentials as the add before the last call found them.
Origin == loadCredentials(pair.origin).elems

\* The id a stored credential is known by, as far as the document tells: its
\* id, else its subject's id (undefined when it carries neither and was keyed
\* by the clock).
KeyOf(c) == IF Truthy(c.id) THEN c.id ELSE c.sub

\* The places of the stored credentials that carry id.
PlacesOf(creds, id) == { i \in 1..Len(creds) : creds[i].id = id }

\* C1: from an empty store, after any adds and removes of any credentials
\* (also of credentials without an id field), no two stored credentials share
\* an id.
C1_NoTwoShareId ==
    \A i, j \in 1..Len(Stored) :
        (i # j /\ Truthy(KeyOf(Stored[i]))) => KeyOf(Stored[i]) # KeyOf(Stored[j])

\* C2: add(c1) then add(c2), for different credentials carrying the same id:
\* the second add returns false and leaves the collection as it was, one entry
\* carries the id, it is c1 (when the store did not hold the id before), and
\* the save button then reads "already in the wallet".
C2_SecondAddIsNoOp ==
    (last.op = "add" /\ pair.on /\ last.cred # pair.first) =>
        /\ last.ret = "false"
        /\ storage = prev
        /\ Cardinality(PlacesOf(Stored, last.cred.id)) = 1
        /\ ~Found(Origin, last.cred.id) =>
               /\ pair.firstRet = "true"
               /\ Find(Stored, last.cred.id) = <<pair.first>>
        /\ last.handler = "saveToWallet" => last.shown = "Ja estava na wallet"

\* C2's case: c1 was added to a store without its id, then a different c2
\* with the same id was saved from the claim page.
C2_Witness ==
    /\ last.op = "add" /\ pair.on /\ last.cred # pair.first
    /\ ~Found(Origin, last.cred.id)
    /\ last.handler = "saveToWallet"
    /\ Len(Stored) >= 2

\* C3: add keys the credential by id, else credentialSubject.id, else the
\* clock; it inserts at the front and returns true exactly when no stored
\* entry has that key, so a second credential without id but with the subject
\* id of a stored one is refused.
C3_AddKeysByResolvedId ==
    last.op = "add" =>
        LET shares == \E i \in 1..Len(Before) : KeyOf(Before[i]) = last.id
        IN  /\ last.id = ResolveId(last.cred, now)
            /\ last.ret = "true" <=> ~shares
            /\ last.ret = "true" => Stored = <<last.cred>> \o Before
            /\ last.ret = "false" => storage = prev

\* C4 as claimed: add(c) then remove(c.id) gives back the store as it was,
\* whatever it held.
C4_RoundTripAlways ==
    (last.op = "remove" /\ pair.on) => Stored = Origin

\* C4 as amended: add(c) then remove(c.id) gives back the store as it was
\* when it held no entry with c's id; when it held one, add changes nothing
\* and remove takes that entry out.
C4_RoundTrip ==
    (last.op = "remove" /\ pair.on) =>
        IF ~Found(Origin, last.id)
        THEN pair.firstRet = "true" /\ Stored = Origin
        ELSE /\ pair.firstRet = "false"
             /\ Stored = SelectSeq(Origin, LAMBDA c : c.id # last.id)
             /\ Stored # Origin

\* C4's case: a credential was added in front of two others and removed.
C4_Witness ==
    /\ last.op = "remove" /\ pair.on
    /\ pair.firstRet = "true"
    /\ Len(Origin) = 2
    /\ Stored = Origin

\* C5: isExpired is false without expirationDate, and otherwise true exactly
\* when the clock is strictly past the parsed date; it leaves the stored
\* collection alone.
C5_IsExpired ==
    last.op = "isExpired" =>
        /\ last.cred.exp = Undefined => last.ret = "false"
        /\ ParseDate(last.cred.exp) # NaN =>
               (last.ret = "true" <=> now > ParseDate(last.cred.exp))
        /\ (last.cred.exp # Undefined /\ ParseDate(last.cred.exp) = NaN) =>
               last.ret = "false"
        /\ storage = prev

\* C5's case: asked at the very instant of the expirationDate.
C5_Witness ==
    /\ last.op = "isExpired"
    /\ last.cred.exp = ExpDate
    /\ now = ParseDate(ExpDate)
    /\ last.ret = "false"
    /\ Len(Stored) > 0

\* C6: list() always returns a sequence, the empty one when the item is
\* missing, unparsable or no list, so that add and remove, which search and
\* filter it, never fail on it.
C6_ListAlwaysSequence ==
    /\ last.op = "list" =>
           /\ last.out.type = "array"
           /\ prev.kind # "array" => last.out.elems = <<>>
    /\ last.op \in {"add", "remove"} => last.ret # "TypeError"

\* C7: when setItem rejects the write of an add or a remove, nothing is
\* thrown to the caller and the save or delete handler still renders its
\* outcome.
C7_WriteErrorSwallowed ==
    (last.op \in {"add", "remove"} /\ full /\ prev.kind \in {"missing", "array"}) =>
        /\ last.ret # "QuotaExceededError"
        /\ last.handler # "" => last.shown # ""

\* The four display categories of a banner.
Category(b) ==
    CASE b.class = "expired" -> "expired"
      [] b.class = "valid" -> "valid"
      [] b.class = "invalid" /\ b.msg = SignatureMsg -> "signature invalid"
      [] b.class = "invalid" /\ b.msg # SignatureMsg -> "other failure"
      [] OTHER -> "none"

\* C8: the banner's category is signature invalid unless signatureValid is
\* true, else expired when expired is true, else valid when valid is true,
\* else other failure.
C8_VerdictPrecedence ==
    results.kind = "banner" =>
        Category(results) =
            CASE verdict.signatureValid # "true" -> "signature invalid"
              [] verdict.signatureValid = "true" /\ verdict.expired = "true" -> "expired"
              [] verdict.signatureValid = "true" /\ verdict.expired # "true"
                   /\ verdict.valid = "true" -> "valid"
              [] OTHER -> "other failure"

\* C8's case: a bad signature on an expired credential is shown as a bad
\* signature.
C8_Witness ==
    /\ results.kind = "banner"
    /\ verdict.signatureValid = "false" /\ verdict.expired = "true"
    /\ Category(results) = "signature invalid"

\* The claim page is in the state Saved: the user saved and add returned true.
Saved == pc = "loaded" /\ page.text = "Salvo na wallet!"

\* C9 as claimed: the acknowledgement POST is sent only once the user saved
\* and add returned true.
C9_AckOnlyWhenSaved ==
    page.ack # "none" => Saved

\* C9 as amended: the acknowledgement POST is sent by the page load, as soon
\* as the credential is fetched and shown, saved or not, and never when the
\* load failed; the save handler sends none; the POST settling, well or
\* badly, changes neither the store nor the button.
C9_AckOnLoad ==
    /\ [](page.ack # "none" <=> pc = "loaded")
    /\ [][last'.handler = "saveToWallet" => page'.ack = page.ack]_vars
    /\ [][(page.ack = "pending" /\ page'.ack \in {"acknowledged", "failed"}) =>
             /\ storage' = storage
             /\ page' = [page EXCEPT !.ack = page'.ack]]_vars

\* C9's case: fetched, not saved, and the acknowledgement already failed.
C9_Witness ==
    /\ pc = "loaded"
    /\ page.onclick /\ ~page.disabled /\ page.text = ""
    /\ page.ack = "failed"
    /\ ~Found(Stored, page.cred.id)

\* C10: in one tab, every call leaves the stored credentials and their order
\* alone, but add, which may put its credential in front, and remove(id),
\* which takes out the entries carrying id and no other (none when no entry
\* carries it); the clock passing an expirationDate removes nothing.
C10_OnlyRemoveRemoves ==
    [][ IF last'.op = "remove"
        THEN /\ Stored' = SelectSeq(Stored, LAMBDA c : c.id # last'.id)
             /\ ~Found(Stored, last'.id) => Stored' = Stored
        ELSE IF last'.op = "add"
        THEN Stored' \in {Stored, <<last'.cred>> \o Stored}
        ELSE Stored' = Stored ]_vars

\* C10's case: the middle one of three credentials was removed and an
\* expired one is still there.
C10_Witness ==
    /\ last.op = "remove"
    /\ Len(Before) = 3 /\ Len(Stored) = 2
    /\ Before[2].id = last.id
    /\ \E i \in 1..Len(Stored) : isExpired(Stored[i], now)

\* The answered fetch event was a same-origin GET.
SameOriginGet == swEvent.req.method = "GET" /\ swEvent.req.sameOrigin

\* The answered fetch event's path is under /api/ or /verify/.
ApiRequest ==
    StartsWithDir(swEvent.req.path, "api") \/ StartsWithDir(swEvent.req.path, "verify")

\* What C11 says of every answered event but of the storing on a miss.
FetchRouting ==
    swEvent.stage = "done" =>
        /\ ~SameOriginGet => swEvent.source = "not intercepted"
        /\ (SameOriginGet /\ ApiRequest) =>
               /\ swEvent.net = "answered" => swEvent.source = "network"
               /\ swEvent.source = "cache" => swEvent.net = "failed"
               /\ swEvent.source # "not intercepted"
        /\ (SameOriginGet /\ ~ApiRequest) =>
               /\ swEvent.matched # NoResponse =>
                      swEvent.source = "cache" /\ swEvent.resp = swEvent.matched
               /\ (swEvent.matched = NoResponse /\ swEvent.net = "answered") =>
                      swEvent.source = "network"

\* C11 as claimed: non-GET and cross-origin requests are not intercepted;
\* /api/ and /verify/ GETs are answered from the network when it succeeds and
\* from the cache only when it fails; any other same-origin GET is answered
\* from the cache when it is there, and on a miss from the network, the
\* response then being stored in the cache for the later requests.
C11_FetchPolicy ==
    /\ FetchRouting
    /\ (swEvent.stage = "done" /\ SameOriginGet /\ ~ApiRequest
          /\ swEvent.matched = NoResponse /\ swEvent.net = "answered") => swEvent.put

\* C11 as amended: the same routing; on a miss the network's response is
\* stored, in the background, exactly when its status is 200 and its type is
\* basic, and a later request for the path is served from the cache once
\* that store has completed.
C11_FetchPolicyStoring200 ==
    /\ [](FetchRouting)
    /\ [](swEvent.put <=>
            /\ swEvent.stage = "done" /\ SameOriginGet /\ ~ApiRequest
            /\ swEvent.matched = NoResponse /\ swEvent.net = "answered"
            /\ swEvent.resp.status = 200 /\ swEvent.resp.type = "basic")
    /\ [][(swEvent'.put /\ swEvent' # swEvent) =>
             /\ [path |-> swEvent'.req.path, resp |-> swEvent'.resp] \in swPuts'
             /\ swCache' = swCache]_vars
    /\ [][\A p \in swPuts \ swPuts' : swCache'[p.path] = p.resp]_vars
    /\ [][\A q \in Path : swCache'[q] # swCache[q] =>
             \/ swPhase = "parsed"
             \/ [path |-> q, resp |-> swCache'[q]] \in swPuts \ swPuts']_vars

\* C11's case: a file that is not precached is served from the cache, which
\* only the storing after an earlier miss can have filled.
C11_Witness ==
    /\ swEvent.stage = "done"
    /\ swEvent.req = [method |-> "GET", sameOrigin |-> TRUE, path |-> CssPath]
    /\ swEvent.source = "cache"
    /\ swEvent.resp = Response(200, "basic", "v2")

\* C12: add and remove read the whole collection and then rewrite the
\* whole collection, in two steps; a tab's write is what its call makes of
\* the collection it read, whatever another tab stored in between, so the
\* last writer wins and the other tab's mutation can be lost.
C12_LastWriterWins ==
    [][\A t \in Tab :
          /\ (tab[t].pc = "idle" /\ tab'[t].pc = "read") =>
                 storage' = storage /\ tab'[t].read = storage
          /\ (tab[t].pc = "read" /\ tab'[t].pc = "idle") =>
                 LET r == tabCall(tab[t], tab[t].read, full, now)
                 IN  IF r.ret \in {"true", "undefined"}
                     THEN storage' = r.item
                     ELSE storage' = storage]_vars

\* C12's case: both tabs are done, an add returned true, no remove of that
\* credential completed after it, and the credential is not stored.
C12_Witness ==
    /\ \A t \in Tab : tab[t].pc = "idle"
    /\ \E x \in kept : ~Found(Stored, x.id)

\* C12's other case: both tabs are done, a remove completed, no add of that
\* id returned true after it, and a credential with the id is stored again.
C12_RemovedIsBack ==
    /\ \A t \in Tab : tab[t].pc = "idle"
    /\ \E id \in gone : Found(Stored, id)

=============================================================================
